---- MODULE Spec2Model ----
(***************************************************************************)
(* A model of procli's process supervision engine: the Process records    *)
(* kept by the ProcessManager, the OS children and their death watchers,   *)
(* and the internal event queue the single consumer drains.                *)
(***************************************************************************)
EXTENDS Integers, Sequences, FiniteSets, TLC

(* ------------------------------ bounds -------------------------------- *)
\* Longest process collection explored.
MaxProcs == 2
\* Number of incarnation ids (spawn attempts) explored.
MaxUuid == 3
\* Last instant of the clock.
MaxTime == 1
\* Longest internal event queue explored.
MaxQueue == 2
\* Longest stat history explored.
MaxStats == 1
\* Largest cooloff (seconds) and max_restarts of a configured policy.
MaxCooloff == 1
MaxRestartsCfg == 1

(* ------------------------------ inputs -------------------------------- *)
Names == {"web", "db"}

\* Option<T>: <<>> is None, <<v>> is Some(v).
None == <<>>
Some(v) == <<v>>
IsSome(o) == Len(o) = 1
Unwrap(o) == o[1]

\* config::RestartPolicy. cooloff and max_restarts stay far below the widths of
\* u64 and u32, so Instant + Duration and restarts += 1 do not overflow here.
RestartPolicy(e, c, m) == [enabled |-> e, cooloff |-> c, max_restarts |-> m]
Policies == {RestartPolicy(e, MaxCooloff, MaxRestartsCfg) : e \in BOOLEAN}

\* std::process::ExitStatus of a child: its own exit code, or death by signal.
OwnStatuses == {"failure"}
KilledStatus == "signal"

\* The command strings a service may carry, and shlex::split on each:
\* None for unbalanced quoting, otherwise the list of words.
Commands == {"run --port 1", "", "run 'x"}
ShlexSplit(c) ==
    CASE c = "run --port 1" -> Some(<<"run", "--port", "1">>)
      [] c = "" -> Some(<<>>)
      [] OTHER -> None

\* The directories a service may carry, and std::path::absolute on each: it
\* fails on the empty path only.
Directories == {"work", ""}
AbsoluteOk(d) == d # ""

\* The services a configuration may hold (config::Service, the fields the
\* supervisor reads).
Services ==
    [name : Names,
     image : {None, Some("img")},
     command : {None} \cup {Some(c) : c \in Commands},
     directory : {None} \cup {Some(d) : d \in Directories},
     restart : Policies]

(* ------------------------------- state -------------------------------- *)
VARIABLES
    processes,  \* ProcessManager.processes: Vec<Process>
    children,   \* one entry per incarnation id: the OS child and its death watcher
    queue,      \* the internal unbounded queue of App events
    now,        \* Instant::now()
    app,        \* App: running, the ConfigManager's document, whether run() has started the services, ui_state
    op          \* the manager call the consumer made in the last step, and its result

vars == <<processes, children, queue, now, app, op>>

\* event::TICK_FPS, the rate of the render tick.
TICK_FPS == 30

\* UiState::default(), the fields the tick counter needs.
UiDefault == [tick |-> 0]

\* Mutant of UiState::tick: the counter wraps on reaching 2 * TICK_FPS.
UiStateTick_WrapsAtLimit(ui) ==
    [ui EXCEPT !.tick = IF ui.tick + 1 >= 2 * TICK_FPS THEN 0 ELSE ui.tick + 1]

\* UiState::tick
UiStateTick(ui) ==
    [ui EXCEPT !.tick = IF ui.tick + 1 > 2 * TICK_FPS THEN 0 ELSE ui.tick + 1]

\* The step functions: (tick * 8.0 / TICK_FPS) as usize % 8 and the like. tick
\* is a whole number below 2^53 and the f64 quotient of whole numbers is
\* rounded correctly, so the cast gives the floor of the exact quotient.
step_of_8_in_1_second(ui) == ((ui.tick * 8) \div TICK_FPS) % 8
step_of_4_in_1_second(ui) == ((ui.tick * 4) \div TICK_FPS) % 4
step_of_8_in_2_second(ui) == ((ui.tick * 4) \div TICK_FPS) % 8

\* App::new with ConfigManager::new having loaded config: running is true and
\* run() has not yet started the services.
\* rx_open: the receiving end of the internal queue (in the EventHandler the
\* App owns) exists; ticker: the periodic task of ProcessManager::new lives.
NewApp(config) ==
    [running |-> TRUE, config |-> config, started |-> FALSE, ui |-> UiDefault,
     rx_open |-> TRUE, ticker |-> TRUE]

\* Mutant of the loop condition: `while self.running` taken as `loop`.
InLoop_IgnoresRunning == app.started

\* The App is in the loop of run(): the services were started, running is true.
InLoop == app.started /\ app.running

\* proc::process::ProcessState and ProcessRestart. Killing is never built.
NoRestart == None
RestartAt(t) == Some(t)
Starting == [tag |-> "Starting", restart |-> NoRestart, status |-> "none"]
Running == [tag |-> "Running", restart |-> NoRestart, status |-> "none"]
Stopped(r, s) == [tag |-> "Stopped", restart |-> r, status |-> s]

\* Uuid::nil()
NilUuid == 0

\* ProcessStats::default()
DefaultStats == [timestamp |-> 0, cpu_percent |-> 0, memory_mb |-> 0, uptime |-> 0]

\* command::build_command: TRUE when a Command can be built from the service.
\* ProcessConfig::directory: Err when absolute() fails.
DirectoryOk(svc) == IsSome(svc.directory) => AbsoluteOk(Unwrap(svc.directory))

BuildCommandOk(svc) ==
    IF IsSome(svc.image)
    THEN /\ DirectoryOk(svc)
         /\ \/ ~IsSome(svc.command)
            \/ IsSome(ShlexSplit(Unwrap(svc.command)))
    ELSE /\ IsSome(svc.command)
         /\ IsSome(ShlexSplit(Unwrap(svc.command)))
         /\ Len(Unwrap(ShlexSplit(Unwrap(svc.command)))) > 0
         /\ DirectoryOk(svc)

\* Process::new
NewProcess(svc) ==
    [name |-> svc.name,
     uuid |-> NilUuid,
     closer |-> None,
     state |-> Starting,
     restarts |-> 0,
     restart_policy |-> svc.restart,
     pid |-> None,
     last_start |-> None,
     last_stop |-> None,
     stats |-> <<>>,
     stats_max |-> DefaultStats]

\* One entry of children per incarnation id drawn by Process::spawn.
\*   os      "none" (the OS spawn failed: no child, no watcher), "running",
\*           "exited" (the child has exited, child.wait() not yet resolved) or
\*           "reaped" (child.wait() resolved and the watcher returned)
\*   closed  the termination channel is closed (its receiver was dropped)
\*   killed  the watcher has called child.start_kill()
\*   status  the ExitStatus child.wait() will yield
\* closed, killed and status describe what the watcher task holds; they are
\* gone (back to their initial values) once the watcher has returned.
\*   deaths  how many ProcessDied events the watcher has sent
NoChild == [os |-> "none", closed |-> FALSE, killed |-> FALSE, status |-> "none", deaths |-> 0]
NewChild == [os |-> "running", closed |-> FALSE, killed |-> FALSE, status |-> "none", deaths |-> 0]

\* oneshot::Receiver dropped: the channel an Option<Receiver> holds is closed.
DropCloser(kids, closer) ==
    IF IsSome(closer) /\ kids[Unwrap(closer)].os \in {"running", "exited"}
    THEN [kids EXCEPT ![Unwrap(closer)].closed = TRUE]
    ELSE kids

\* Process::spawn on record p at instant t; ok tells whether the OS starts the
\* command. The id is drawn and stored before the OS is asked.
ProcessSpawn(p, kids, ok, t) ==
    LET uuid == Len(kids) + 1
        q == [p EXCEPT !.last_start = Some(t), !.uuid = uuid]
    IN  IF ok
        THEN [proc |-> [q EXCEPT !.pid = Some(uuid), !.closer = Some(uuid)],
              kids |-> Append(DropCloser(kids, p.closer), NewChild),
              res |-> Some(uuid)]
        ELSE [proc |-> q, kids |-> Append(kids, NoChild), res |-> None]

\* Mutant of Process::kill: the kill request also relabels the state (Killing).
ProcessKill_SetsKilling(p, kids) ==
    [proc |-> [p EXCEPT !.closer = None,
                        !.state = [tag |-> "Killing", restart |-> NoRestart, status |-> "none"]],
     kids |-> DropCloser(kids, p.closer)]

\* Mutant of Process::kill: a kill that finds no channel forgets the incarnation.
ProcessKill_ForgetsIncarnation(p, kids) ==
    [proc |-> [p EXCEPT !.closer = None,
                        !.uuid = IF IsSome(p.closer) THEN @ ELSE NilUuid],
     kids |-> DropCloser(kids, p.closer)]

\* Process::kill
ProcessKill(p, kids) ==
    [proc |-> [p EXCEPT !.closer = None], kids |-> DropCloser(kids, p.closer)]

\* Mutant of push_stats: stats_max takes the sample's values (the last sample,
\* not the maximum).
PushStats_KeepsLast(p, sample) ==
    [p EXCEPT
        !.stats = Append(@, sample),
        !.stats_max = [timestamp |-> sample.timestamp,
                       cpu_percent |-> sample.cpu_percent,
                       memory_mb |-> sample.memory_mb,
                       uptime |-> sample.uptime],
        !.state = Running]

\* Process::push_stats
PushStats(p, sample) ==
    LET Max(a, b) == IF a >= b THEN a ELSE b
    IN  [p EXCEPT
            !.stats = Append(@, sample),
            !.stats_max = [timestamp |-> sample.timestamp,
                           cpu_percent |-> Max(@.cpu_percent, sample.cpu_percent),
                           memory_mb |-> Max(@.memory_mb, sample.memory_mb),
                           uptime |-> Max(@.uptime, sample.uptime)],
            !.state = Running]

\* ProcessManager::find: index of the first record with that name, 0 if none.
Find(procs, name) ==
    IF \E i \in 1..Len(procs) : procs[i].name = name
    THEN CHOOSE i \in 1..Len(procs) :
            /\ procs[i].name = name
            /\ \A j \in 1..(i - 1) : procs[j].name # name
    ELSE 0

\* processes.iter_mut().find(|p| p.uuid == id): index of the first match, 0 if none.
FindUuid(procs, id) ==
    IF \E i \in 1..Len(procs) : procs[i].uuid = id
    THEN CHOOSE i \in 1..Len(procs) :
            /\ procs[i].uuid = id
            /\ \A j \in 1..(i - 1) : procs[j].uuid # id
    ELSE 0

\* ProcessManager::spawn
ManagerSpawn(procs, kids, name, ok, t) ==
    LET i == Find(procs, name)
    IN  IF i = 0
        THEN [procs |-> procs, kids |-> kids, res |-> None]
        ELSE LET r == ProcessSpawn(procs[i], kids, ok, t)
             IN  [procs |-> [procs EXCEPT ![i] = r.proc], kids |-> r.kids, res |-> r.res]

\* ProcessManager::upsert
ManagerUpsert(procs, kids, svc, ok, t) ==
    IF ~BuildCommandOk(svc)
    THEN [procs |-> procs, kids |-> kids, res |-> None]
    ELSE ManagerSpawn(Append(procs, NewProcess(svc)), kids, svc.name, ok, t)

\* Mutant of process_died: the restart budget is compared with <= instead of <.
ManagerProcessDied_LeMax(procs, id, status, t) ==
    LET i == FindUuid(procs, id)
    IN  IF i = 0
        THEN procs
        ELSE LET p == procs[i]
                 st == IF p.restart_policy.enabled /\ p.restarts <= p.restart_policy.max_restarts
                       THEN Stopped(RestartAt(t + p.restart_policy.cooloff), status)
                       ELSE Stopped(NoRestart, status)
             IN  [procs EXCEPT ![i] = [p EXCEPT !.state = st, !.last_stop = Some(t)]]

\* Mutant of process_died: the enabled flag of the policy is not consulted.
ManagerProcessDied_IgnoresEnabled(procs, id, status, t) ==
    LET i == FindUuid(procs, id)
    IN  IF i = 0
        THEN procs
        ELSE LET p == procs[i]
                 st == IF p.restarts < p.restart_policy.max_restarts
                       THEN Stopped(RestartAt(t + p.restart_policy.cooloff), status)
                       ELSE Stopped(NoRestart, status)
             IN  [procs EXCEPT ![i] = [p EXCEPT !.state = st, !.last_stop = Some(t)]]

\* Mutant of process_died: an id that matches no incarnation is looked up as a pid.
ManagerProcessDied_MatchesPid(procs, id, status, t) ==
    LET i == IF FindUuid(procs, id) # 0 THEN FindUuid(procs, id)
             ELSE IF \E k \in 1..Len(procs) : procs[k].pid = Some(id)
                  THEN CHOOSE k \in 1..Len(procs) : procs[k].pid = Some(id)
                  ELSE 0
    IN  IF i = 0
        THEN procs
        ELSE LET p == procs[i]
                 st == IF p.restart_policy.enabled /\ p.restarts < p.restart_policy.max_restarts
                       THEN Stopped(RestartAt(t + p.restart_policy.cooloff), status)
                       ELSE Stopped(NoRestart, status)
             IN  [procs EXCEPT ![i] = [p EXCEPT !.state = st, !.last_stop = Some(t)]]

\* ProcessManager::process_died
ManagerProcessDied(procs, id, status, t) ==
    LET i == FindUuid(procs, id)
    IN  IF i = 0
        THEN procs
        ELSE LET p == procs[i]
                 st == IF p.restart_policy.enabled /\ p.restarts < p.restart_policy.max_restarts
                       THEN Stopped(RestartAt(t + p.restart_policy.cooloff), status)
                       ELSE Stopped(NoRestart, status)
             IN  [procs EXCEPT ![i] = [p EXCEPT !.state = st, !.last_stop = Some(t)]]

\* Mutant of remove: an unknown name is not reported (Ok(()) whatever find gives).
ManagerRemove_AlwaysOk(procs, kids, name) ==
    LET i == Find(procs, name)
    IN  IF i = 0
        THEN [procs |-> procs, kids |-> kids, ok |-> TRUE]
        ELSE LET r == ProcessKill(procs[i], kids)
             IN  [procs |-> [procs EXCEPT ![i] = r.proc], kids |-> r.kids, ok |-> TRUE]

\* ProcessManager::remove
ManagerRemove(procs, kids, name) ==
    LET i == Find(procs, name)
    IN  IF i = 0
        THEN [procs |-> procs, kids |-> kids, ok |-> FALSE]
        ELSE LET r == ProcessKill(procs[i], kids)
             IN  [procs |-> [procs EXCEPT ![i] = r.proc], kids |-> r.kids, ok |-> TRUE]

\* sysinfo after refresh_stats: a record's pid has an entry while the OS still
\* knows the child (running, or exited and not yet reaped).
HasInfo(p, kids) ==
    /\ IsSome(p.pid)
    /\ kids[Unwrap(p.pid)].os \in {"running", "exited"}

\* Mutant of assign_stats: every record gets a sample, a pid or not.
AssignStats_SkipsNothing(procs, kids, samples, t) ==
    [i \in 1..Len(procs) |-> PushStats(procs[i], [samples[i] EXCEPT !.timestamp = t])]

\* ProcessManager::assign_stats; samples[i] is what sysinfo reports for record i.
AssignStats(procs, kids, samples, t) ==
    [i \in 1..Len(procs) |->
        IF HasInfo(procs[i], kids)
        THEN PushStats(procs[i], [samples[i] EXCEPT !.timestamp = t])
        ELSE procs[i]]

\* Mutant of check_restarts: the `*t > now` test is missing.
IsDue_IgnoresTime(p, t) ==
    /\ p.state.tag = "Stopped"
    /\ IsSome(p.state.restart)

\* Mutant of check_restarts: no record is ever found due.
IsDue_Never(p, t) == FALSE

\* check_restarts, first loop: the records that are due at instant t.
IsDue(p, t) ==
    /\ p.state.tag = "Stopped"
    /\ IsSome(p.state.restart)
    /\ Unwrap(p.state.restart) <= t

RECURSIVE DueNames(_, _, _)
DueNames(procs, i, t) ==
    IF i > Len(procs) THEN <<>>
    ELSE IF IsDue(procs[i], t)
         THEN <<procs[i].name>> \o DueNames(procs, i + 1, t)
         ELSE DueNames(procs, i + 1, t)

CountDue(procs, t) ==
    [i \in 1..Len(procs) |->
        IF IsDue(procs[i], t) THEN [procs[i] EXCEPT !.restarts = @ + 1] ELSE procs[i]]

\* Mutant of check_restarts: the first failed spawn ends the loop (`?`).
RECURSIVE SpawnNames_StopsAtError(_, _, _, _, _, _)
SpawnNames_StopsAtError(procs, kids, names, oks, k, t) ==
    IF k > Len(names) THEN [procs |-> procs, kids |-> kids]
    ELSE LET r == ManagerSpawn(procs, kids, names[k], oks[k], t)
         IN  IF IsSome(r.res)
             THEN SpawnNames_StopsAtError(r.procs, r.kids, names, oks, k + 1, t)
             ELSE [procs |-> r.procs, kids |-> r.kids]

\* check_restarts, second loop: spawn each collected name in order; a failed
\* spawn is logged and the loop goes on. oks[k] is the OS outcome of the k-th.
RECURSIVE SpawnNames(_, _, _, _, _, _)
SpawnNames(procs, kids, names, oks, k, t) ==
    IF k > Len(names) THEN [procs |-> procs, kids |-> kids]
    ELSE LET r == ManagerSpawn(procs, kids, names[k], oks[k], t)
         IN  SpawnNames(r.procs, r.kids, names, oks, k + 1, t)

\* ProcessManager::check_restarts
CheckRestarts(procs, kids, oks, t) ==
    SpawnNames(CountDue(procs, t), kids, DueNames(procs, 1, t), oks, 1, t)

\* ProcessManager::tick
ManagerTick(procs, kids, samples, oks, t) ==
    CheckRestarts(AssignStats(procs, kids, samples, t), kids, oks, t)

(* ------------------------------ actions ------------------------------- *)
\* What sysinfo may report for one process.
SampleSet == [timestamp : {0}, cpu_percent : {1}, memory_mb : {1}, uptime : {1}]

ProcessDiedEvent(id, status) == [kind |-> "ProcessDied", id |-> id, status |-> status]
StatsRefreshEvent == [kind |-> "StatsRefresh", id |-> 0, status |-> "none"]

Init ==
    /\ processes = <<>>
    /\ children = <<>>
    /\ queue = <<>>
    /\ now = 0
    /\ app = [NewApp(<<>>) EXCEPT !.started = TRUE]
    /\ op = [kind |-> "init"]

\* Time passes.
Advance ==
    /\ now < MaxTime
    /\ now' = now + 1
    /\ op' = [kind |-> "env"]
    /\ UNCHANGED <<processes, children, queue, app>>

\* The OS child of incarnation c exits: by itself, or by the signal of start_kill.
ChildExit(c) ==
    /\ children[c].os = "running"
    /\ \E s \in OwnStatuses \cup (IF children[c].killed THEN {KilledStatus} ELSE {}) :
          children' = [children EXCEPT ![c].os = "exited", ![c].status = s]
    /\ op' = [kind |-> "env"]
    /\ UNCHANGED <<processes, queue, now, app>>

\* death_handler, branch closed.closed(): the watcher is still in its loop and
\* the termination channel is closed; it calls start_kill and loops.
WatcherKill(c) ==
    /\ children[c].os \in {"running", "exited"}
    /\ children[c].closed
    /\ ~children[c].killed
    /\ children' = [children EXCEPT ![c].killed = TRUE]
    /\ op' = [kind |-> "env"]
    /\ UNCHANGED <<processes, queue, now, app>>

\* Mutant of death_handler: after sending ProcessDied the watcher loops instead
\* of returning.
WatcherReport_KeepsWaiting(c) ==
    /\ app.rx_open
    /\ children[c].os = "exited"
    /\ Len(queue) < MaxQueue
    /\ queue' = Append(queue, ProcessDiedEvent(c, children[c].status))
    /\ children' = [children EXCEPT ![c].deaths = @ + 1]
    /\ op' = [kind |-> "env"]
    /\ UNCHANGED <<processes, now, app>>

\* Mutant of death_handler: the watcher marks the record itself, besides
\* sending ProcessDied.
WatcherReport_MarksRecord(c) ==
    /\ app.rx_open
    /\ children[c].os = "exited"
    /\ Len(queue) < MaxQueue
    /\ queue' = Append(queue, ProcessDiedEvent(c, children[c].status))
    /\ children' = [children EXCEPT ![c] = [NoChild EXCEPT !.os = "reaped", !.deaths = children[c].deaths + 1]]
    /\ processes' = ManagerProcessDied(processes, c, children[c].status, now)
    /\ op' = [kind |-> "env"]
    /\ UNCHANGED <<now, app>>

\* death_handler, branch child.wait(): the exit is observed, ProcessDied is
\* sent and the watcher returns.
WatcherReport(c) ==
    /\ app.rx_open
    /\ children[c].os = "exited"
    /\ Len(queue) < MaxQueue
    /\ queue' = Append(queue, ProcessDiedEvent(c, children[c].status))
    /\ children' = [children EXCEPT ![c] = [NoChild EXCEPT !.os = "reaped", !.deaths = children[c].deaths + 1]]
    /\ op' = [kind |-> "env"]
    /\ UNCHANGED <<processes, now, app>>

\* The periodic task of ProcessManager::new sends StatsRefresh.
Ticker ==
    /\ app.ticker
    /\ app.rx_open
    /\ Len(queue) < MaxQueue
    /\ queue' = Append(queue, StatsRefreshEvent)
    /\ op' = [kind |-> "env"]
    /\ UNCHANGED <<processes, children, now, app>>

\* App::run dequeues ProcessDied(id, status) and calls process_died.
HandleProcessDied ==
    /\ InLoop
    /\ queue # <<>>
    /\ Head(queue).kind = "ProcessDied"
    /\ queue' = Tail(queue)
    /\ processes' = ManagerProcessDied(processes, Head(queue).id, Head(queue).status, now)
    /\ op' = [kind |-> "process_died", id |-> Head(queue).id, status |-> Head(queue).status]
    /\ UNCHANGED <<children, now, app>>

\* App::run dequeues StatsRefresh and calls tick; maxUuid and maxStats cap the
\* incarnations drawn and the length of a history.
StatsRefreshHandled(maxUuid, maxStats) ==
    /\ InLoop
    /\ queue # <<>>
    /\ Head(queue).kind = "StatsRefresh"
    /\ Len(children) + Len(DueNames(processes, 1, now)) <= maxUuid
    /\ \A i \in 1..Len(processes) :
          HasInfo(processes[i], children) => Len(processes[i].stats) < maxStats
    /\ \E samples \in [1..Len(processes) -> SampleSet], oks \in [1..MaxProcs -> BOOLEAN] :
          LET r == ManagerTick(processes, children, samples, oks, now)
          IN  /\ processes' = r.procs
              /\ children' = r.kids
    /\ queue' = Tail(queue)
    /\ op' = [kind |-> "tick"]
    /\ UNCHANGED <<now, app>>

HandleStatsRefresh == StatsRefreshHandled(MaxUuid, MaxStats)

\* The consumer calls upsert(svc) (App::start does, for each service).
CallUpsert(svc) ==
    /\ Len(processes) < MaxProcs
    /\ Len(children) < MaxUuid
    /\ \E ok \in BOOLEAN :
          LET r == ManagerUpsert(processes, children, svc, ok, now)
          IN  /\ processes' = r.procs
              /\ children' = r.kids
              /\ op' = [kind |-> "upsert", name |-> svc.name, res |-> r.res]
    /\ UNCHANGED <<queue, now, app>>

\* A caller on the consumer's thread calls remove(name), for any name.
CallRemove(name) ==
    /\ LET r == ManagerRemove(processes, children, name)
       IN  /\ processes' = r.procs
           /\ children' = r.kids
           /\ op' = [kind |-> "remove", name |-> name, ok |-> r.ok]
    /\ UNCHANGED <<queue, now, app>>

Next ==
    \/ Advance
    \/ \E c \in 1..Len(children) : ChildExit(c)
    \/ \E c \in 1..Len(children) : WatcherKill(c)
    \/ \E c \in 1..Len(children) : WatcherReport(c)
    \/ Ticker
    \/ HandleProcessDied
    \/ HandleStatsRefresh
    \/ \E svc \in Services : CallUpsert(svc)
    \/ \E name \in Names : CallRemove(name)

Spec == Init /\ [][Next]_vars

(* ------------------------------- claims ------------------------------- *)
\* The records of procs whose current incarnation id is id.
Matching(procs, id) == {i \in 1..Len(procs) : procs[i].uuid = id}

\* The records of procs that carry the name.
Named(procs, name) == {i \in 1..Len(procs) : procs[i].name = name}

\* The ProcessDied events for incarnation c in the queue q.
DiedInQueue(q, c) == {k \in 1..Len(q) : q[k].kind = "ProcessDied" /\ q[k].id = c}

\* Number of ProcessDied events the watcher of incarnation c has sent so far.
DeathsOf(kids, c) == IF c <= Len(kids) THEN kids[c].deaths ELSE 0

\* C1: process_died(id, status) for the current incarnation id of a tracked
\* process sets that process to Stopped(RestartAt(now + cooloff), status) when
\* its policy is enabled and restarts < max_restarts, to Stopped(NoRestart,
\* status) otherwise, sets last_stop to now, and changes no other process.
C1_ProcessDiedSetsStopped ==
    [][(op'.kind = "process_died" /\ Matching(processes, op'.id) # {}) =>
        /\ Len(processes') = Len(processes)
        /\ \A i \in 1..Len(processes) :
            LET p == processes[i]
                q == processes'[i]
            IN  IF i \in Matching(processes, op'.id)
                THEN /\ q.state =
                          IF p.restart_policy.enabled /\ p.restarts < p.restart_policy.max_restarts
                          THEN Stopped(RestartAt(now + p.restart_policy.cooloff), op'.status)
                          ELSE Stopped(NoRestart, op'.status)
                     /\ q.last_stop = Some(now)
                     /\ q = [p EXCEPT !.state = q.state, !.last_stop = q.last_stop]
                ELSE q = p]_vars

\* A death was just consumed for a process that had used up its restarts (NoRestart)
\* while another record is in the collection.
C1_Witness ==
    /\ op.kind = "process_died"
    /\ Len(processes) = 2
    /\ \E i \in Matching(processes, op.id) :
        /\ processes[i].state = Stopped(NoRestart, op.status)
        /\ processes[i].restart_policy.enabled
        /\ processes[i].restarts = processes[i].restart_policy.max_restarts
        /\ processes[i].last_stop = Some(now)

\* The records tick()'s restart scan finds due: still Stopped(RestartAt(t), _)
\* with t <= now once the stat distribution of the same tick is over.
DueAtScan(i) ==
    /\ processes[i].state.tag = "Stopped"
    /\ IsSome(processes[i].state.restart)
    /\ Unwrap(processes[i].state.restart) <= now
    /\ Len(processes'[i].stats) = Len(processes[i].stats)

\* The records whose restart is still in the future.
FutureAtTick(i) ==
    /\ processes[i].state.tag = "Stopped"
    /\ IsSome(processes[i].state.restart)
    /\ Unwrap(processes[i].state.restart) > now

\* What tick() does to a record whose RestartAt is in the future: no respawn;
\* state, counter and id are left alone by the restart scan (the stat
\* distribution of the same tick may have made it Running).
FutureLeftAlone(i) ==
    /\ processes'[i].uuid = processes[i].uuid
    /\ processes'[i].restarts = processes[i].restarts
    /\ processes'[i].pid = processes[i].pid
    /\ processes'[i].closer = processes[i].closer
    /\ \/ processes'[i].state = processes[i].state
       \/ /\ Len(processes'[i].stats) = Len(processes[i].stats) + 1
          /\ processes'[i].state = Running

\* One spawn attempt per due record: the counter grows by one and the id is new.
DueAttemptedOnce(i) ==
    /\ processes'[i].restarts = processes[i].restarts + 1
    /\ processes'[i].uuid > Len(children)
    /\ processes'[i].uuid <= Len(children')
    /\ \A j \in 1..Len(processes) : j # i => processes'[j].uuid # processes'[i].uuid

\* The record has a new running child of its own.
Respawned(i) ==
    /\ children'[processes'[i].uuid].os = "running"
    /\ processes'[i].pid = Some(processes'[i].uuid)
    /\ processes'[i].closer = Some(processes'[i].uuid)

\* C2 as stated: in every tick() a record with RestartAt(t), t > now, is not
\* respawned, and one with t <= now is respawned exactly once, its counter
\* grows by exactly 1 and it gets a new incarnation id.
C2_Original ==
    [][op'.kind = "tick" =>
        /\ Len(children') - Len(children) = Cardinality({i \in 1..Len(processes) : DueAtScan(i)})
        /\ \A i \in 1..Len(processes) :
            /\ FutureAtTick(i) => FutureLeftAlone(i)
            /\ DueAtScan(i) => DueAttemptedOnce(i) /\ Respawned(i)]_vars

\* C2 (amended): in every tick() a record with RestartAt(t), t > now, is not
\* respawned; one with t <= now gets exactly one spawn attempt: its counter
\* grows by exactly 1 and it gets a new incarnation id, and it has a new child
\* exactly when the OS starts the command (a failed spawn leaves pid and the
\* termination channel as they were).
C2_TickRestartsDueOnce ==
    [][op'.kind = "tick" =>
        /\ Len(children') - Len(children) = Cardinality({i \in 1..Len(processes) : DueAtScan(i)})
        /\ \A i \in 1..Len(processes) :
            /\ FutureAtTick(i) => FutureLeftAlone(i)
            /\ DueAtScan(i) =>
                /\ DueAttemptedOnce(i)
                /\ \/ Respawned(i)
                   \/ /\ children'[processes'[i].uuid].os = "none"
                      /\ processes'[i].pid = processes[i].pid
                      /\ processes'[i].closer = processes[i].closer]_vars

\* A tick has just respawned a record: one restart counted, a running child of
\* the new incarnation, while a second record waits for a later RestartAt.
C2_Witness ==
    /\ op.kind = "tick"
    /\ \E i \in 1..Len(processes) :
        /\ processes[i].restarts = 1
        /\ processes[i].uuid > 1
        /\ processes[i].pid = Some(processes[i].uuid)
        /\ children[processes[i].uuid].os = "running"
    /\ \E j \in 1..Len(processes) :
        /\ processes[j].state.tag = "Stopped"
        /\ IsSome(processes[j].state.restart)
        /\ Unwrap(processes[j].state.restart) > now
        /\ processes[j].restarts = 0

\* C3: the death watcher of an incarnation sends at most one ProcessDied, and
\* only on the OS exit of its child: no step without an observed exit (a kill
\* request, a start_kill) sends one.
C3_AtMostOneDeath ==
    [][\A c \in 1..Len(children') :
        /\ children'[c].deaths <= 1
        /\ Cardinality(DiedInQueue(queue', c)) <= children'[c].deaths
        /\ children'[c].deaths > DeathsOf(children, c) =>
              /\ children[c].os = "exited"
              /\ children'[c].os = "reaped"
        /\ Cardinality(DiedInQueue(queue', c)) > Cardinality(DiedInQueue(queue, c)) =>
              children'[c].deaths > DeathsOf(children, c)]_vars

\* The one death notice of a child that was killed on request is in the queue,
\* and a further remove() has been called since.
C3_Witness ==
    /\ op.kind = "remove"
    /\ op.ok
    /\ \E c \in 1..Len(children) :
        /\ children[c].deaths = 1
        /\ \E k \in DiedInQueue(queue, c) : queue[k].status = KilledStatus
        /\ \E i \in Named(processes, op.name) : processes[i].pid = Some(c)

\* C4: process_died(id, status) with an id that is no tracked process's
\* current incarnation id changes nothing: every record and the collection
\* stay as they were.
C4_UnknownDeathIgnored ==
    [][(op'.kind = "process_died" /\ Matching(processes, op'.id) = {}) =>
        /\ processes' = processes
        /\ children' = children]_vars

\* The death notice of a superseded incarnation was just consumed: the record
\* that had it now runs under a newer id.
C4_Witness ==
    /\ op.kind = "process_died"
    /\ Matching(processes, op.id) = {}
    /\ \E i \in 1..Len(processes) : processes[i].uuid > op.id

\* C5: remove(name) with no tracked process of that name returns an error and
\* changes nothing: no record, no termination channel, no event.
C5_RemoveUnknownFails ==
    [][(op'.kind = "remove" /\ Named(processes, op'.name) = {}) =>
        /\ ~op'.ok
        /\ processes' = processes
        /\ children' = children
        /\ queue' = queue]_vars

\* remove() of an unknown name has just failed while another process runs.
C5_Witness ==
    /\ op.kind = "remove"
    /\ ~op.ok
    /\ Named(processes, op.name) = {}
    /\ \E i \in 1..Len(processes) :
        /\ IsSome(processes[i].closer)
        /\ children[Unwrap(processes[i].closer)].os = "running"

C7_KillIdempotent ==
    \A i \in 1..Len(processes) :
        LET once == ProcessKill(processes[i], children)
            twice == ProcessKill(once.proc, once.kids)
        IN  /\ twice = once
            /\ processes[i].closer = None =>
                  once = [proc |-> processes[i], kids |-> children]

\* remove() was called again for a process whose watcher had already acted on
\* the first kill request.
C7_Witness ==
    /\ op.kind = "remove"
    /\ op.ok
    /\ \E i \in Named(processes, op.name) :
        /\ processes[i].closer = None
        /\ IsSome(processes[i].pid)
        /\ children[Unwrap(processes[i].pid)].os = "running"
        /\ children[Unwrap(processes[i].pid)].killed

\* C8: a process whose restart policy is disabled is never Stopped(RestartAt),
\* its restart counter stays 0, and tick() gives it no new incarnation.
C8_DisabledNeverRestarts ==
    [][/\ \A i \in 1..Len(processes') :
            ~processes'[i].restart_policy.enabled =>
                /\ ~(processes'[i].state.tag = "Stopped" /\ IsSome(processes'[i].state.restart))
                /\ processes'[i].restarts = 0
       /\ op'.kind = "tick" =>
            \A i \in 1..Len(processes) :
                ~processes[i].restart_policy.enabled =>
                    /\ processes'[i].uuid = processes[i].uuid
                    /\ processes'[i].pid = processes[i].pid]_vars

\* A tick has run past the exit of a process with a disabled policy whose
\* max_restarts is not 0.
C8_Witness ==
    /\ op.kind = "tick"
    /\ now > 0
    /\ \E i \in 1..Len(processes) :
        /\ ~processes[i].restart_policy.enabled
        /\ processes[i].restart_policy.max_restarts > 0
        /\ processes[i].state.tag = "Stopped"
        /\ processes[i].state.restart = NoRestart

\* C9: in every reachable state a process whose state carries RestartAt has an
\* enabled policy and a restart counter strictly below max_restarts.
C9_RestartAtBelowMax ==
    \A i \in 1..Len(processes) :
        (processes[i].state.tag = "Stopped" /\ IsSome(processes[i].state.restart)) =>
            /\ processes[i].restart_policy.enabled
            /\ processes[i].restarts < processes[i].restart_policy.max_restarts

\* C10: Stopped(NoRestart, _) is terminal: no step changes the state of a
\* record that is in it, nor gives it a new incarnation.
C10_NoRestartIsTerminal ==
    [][\A i \in 1..Len(processes) :
        (processes[i].state.tag = "Stopped" /\ processes[i].state.restart = NoRestart) =>
            /\ processes'[i].state = processes[i].state
            /\ processes'[i].uuid = processes[i].uuid
            /\ processes'[i].pid = processes[i].pid]_vars

\* C11: every successful spawn sets the state to Starting: right after tick()
\* has respawned a record that was Stopped(RestartAt(t), _), the record is
\* Starting (and no longer Stopped).
C11_RespawnSetsStarting ==
    [][op'.kind = "tick" =>
        \A i \in 1..Len(processes) :
            (DueAtScan(i) /\ Respawned(i)) => processes'[i].state = Starting]_vars

\* C13: a successful upsert(spec) appends exactly one record built from spec,
\* the new OS process belongs to that appended record and the returned id is
\* its incarnation id; the records that were there are left as they were, also
\* when one of them has the same name.
C13_UpsertSpawnsNewRecord ==
    [][(op'.kind = "upsert" /\ IsSome(op'.res)) =>
        /\ Len(processes') = Len(processes) + 1
        /\ processes'[Len(processes')].name = op'.name
        /\ processes'[Len(processes')].uuid = Unwrap(op'.res)
        /\ processes'[Len(processes')].pid = op'.res
        /\ children'[Unwrap(op'.res)].os = "running"
        /\ \A i \in 1..Len(processes) : processes'[i] = processes[i]]_vars

(* ------------------- push_stats taken on its own ---------------------- *)
\* Bounds of the push_stats specification: the longest history, and the
\* largest value a sample's field takes.
StatsMaxLen == 2
StatsMaxVal == 2

\* ProcessStats::new at instant t: what sysinfo may report for one process.
StatsSamples(t) ==
    [timestamp : {t}, cpu_percent : 0..StatsMaxVal,
     memory_mb : 0..StatsMaxVal, uptime : 0..StatsMaxVal]

\* One spawned record, to which samples are pushed.
StatsService ==
    [name |-> "web", image |-> None, command |-> Some("run --port 1"),
     directory |-> None, restart |-> RestartPolicy(FALSE, MaxCooloff, MaxRestartsCfg)]

StatsInit ==
    /\ processes = <<ProcessSpawn(NewProcess(StatsService), <<>>, TRUE, 0).proc>>
    /\ children = <<NewChild>>
    /\ queue = <<>>
    /\ now = 0
    /\ app = [NewApp(<<>>) EXCEPT !.started = TRUE]
    /\ op = [kind |-> "init"]

\* assign_stats calls push_stats on the record with a sample taken at the
\* next instant.
PushStatsCall ==
    /\ Len(processes[1].stats) < StatsMaxLen
    /\ \E sample \in StatsSamples(Len(processes[1].stats) + 1) :
          /\ processes' = [processes EXCEPT ![1] = PushStats(@, sample)]
          /\ op' = [kind |-> "push_stats", sample |-> sample]
    /\ UNCHANGED <<children, queue, now, app>>

StatsNext == PushStatsCall

StatsSpec == StatsInit /\ [][StatsNext]_vars

\* m is the maximum of a and b.
IsMaxOf(m, a, b) == m >= a /\ m >= b /\ m \in {a, b}

\* C12: push_stats(sample) appends the sample to the history, sets the state
\* to Running and makes each of stats_max.cpu_percent, memory_mb and uptime the
\* maximum of its old value and the sample's; so each of these fields never
\* decreases and is >= the same field of every sample of the history.
C12_PushStatsKeepsMax ==
    [][op'.kind = "push_stats" =>
        LET p == processes[1]
            q == processes'[1]
            s == op'.sample
        IN  /\ q.stats = Append(p.stats, s)
            /\ q.state = Running
            /\ IsMaxOf(q.stats_max.cpu_percent, p.stats_max.cpu_percent, s.cpu_percent)
            /\ IsMaxOf(q.stats_max.memory_mb, p.stats_max.memory_mb, s.memory_mb)
            /\ IsMaxOf(q.stats_max.uptime, p.stats_max.uptime, s.uptime)
            /\ q.stats_max.cpu_percent >= p.stats_max.cpu_percent
            /\ q.stats_max.memory_mb >= p.stats_max.memory_mb
            /\ q.stats_max.uptime >= p.stats_max.uptime
            /\ \A k \in 1..Len(q.stats) :
                /\ q.stats_max.cpu_percent >= q.stats[k].cpu_percent
                /\ q.stats_max.memory_mb >= q.stats[k].memory_mb
                /\ q.stats_max.uptime >= q.stats[k].uptime]_vars

\* Two samples were pushed: the second is lower in cpu (the maximum is held
\* from the first) and higher in memory (the maximum is the second's).
C12_Witness ==
    /\ op.kind = "push_stats"
    /\ Len(processes[1].stats) = 2
    /\ processes[1].state = Running
    /\ processes[1].stats[2].cpu_percent < processes[1].stats[1].cpu_percent
    /\ processes[1].stats_max.cpu_percent = processes[1].stats[1].cpu_percent
    /\ processes[1].stats[2].memory_mb > processes[1].stats[1].memory_mb
    /\ processes[1].stats_max.memory_mb = processes[1].stats[2].memory_mb

(* ------------------------------ resample ------------------------------ *)
\* Bounds of the resample specification: the longest series, the latest
\* instant (in time units, the nanoseconds of Duration), the latest window
\* start and the largest bin count.
ResMaxLen == 2
ResMaxTime == 4
ResMaxStart == 1
ResMaxBins == 3

\* The values a sample takes (f32 in the source; NaN is not modelled).
ResValues == {1, 2}

SeqsUpTo(S, n) == UNION {[1..k -> S] : k \in 0..n}

\* What resample gives back: a panic, or the vector of bins.
Returned(bins) == [panic |-> FALSE, bins |-> bins]
Panicked == [panic |-> TRUE, bins |-> <<>>]

\* Instant::duration_since: zero when the later instant is the earlier one.
DurationSince(later, earlier) == IF later >= earlier THEN later - earlier ELSE 0

\* bin_duration = total_duration / num_bins: Duration / u32 truncates.
BinDuration(start, end, num_bins) == DurationSince(end, start) \div num_bins

\* bin_start and bin_end of bin i (counted from 0, as the loop does).
BinStart(start, end, num_bins, i) == start + BinDuration(start, end, num_bins) * i
BinEnd(start, end, num_bins, i) ==
    BinStart(start, end, num_bins, i) + BinDuration(start, end, num_bins)

\* Mutant of the membership test: lower boundary included, upper excluded.
InBin_LowerInclusive(t, bin_start, bin_end) == t >= bin_start /\ t < bin_end

\* time_sample > bin_start && time_sample <= bin_end
InBin(t, bin_start, bin_end) == t > bin_start /\ t <= bin_end

\* Mutant of the inner loop: the last sample of the bin wins, not the largest.
RECURSIVE BinMax_KeepsLast(_, _, _, _, _, _)
BinMax_KeepsLast(samples, time_samples, bin_start, bin_end, j, max_value) ==
    IF j > Len(time_samples) THEN max_value
    ELSE IF InBin(time_samples[j], bin_start, bin_end)
         THEN BinMax_KeepsLast(samples, time_samples, bin_start, bin_end, j + 1, Some(samples[j]))
         ELSE BinMax_KeepsLast(samples, time_samples, bin_start, bin_end, j + 1, max_value)

\* The inner loop over time_samples, from index j on, max_value so far.
RECURSIVE BinMax(_, _, _, _, _, _)
BinMax(samples, time_samples, bin_start, bin_end, j, max_value) ==
    IF j > Len(time_samples) THEN max_value
    ELSE IF InBin(time_samples[j], bin_start, bin_end)
         THEN LET v == IF IsSome(max_value) /\ Unwrap(max_value) >= samples[j]
                       THEN max_value
                       ELSE Some(samples[j])
              IN  BinMax(samples, time_samples, bin_start, bin_end, j + 1, v)
         ELSE BinMax(samples, time_samples, bin_start, bin_end, j + 1, max_value)

\* Mutant of resample: the length test comes before the emptiness test.
Resample_ChecksLengthFirst(samples, time_samples, start, end, num_bins) ==
    IF Len(samples) # Len(time_samples)
    THEN Panicked
    ELSE IF samples = <<>> \/ time_samples = <<>> \/ num_bins = 0
    THEN Returned(<<>>)
    ELSE Returned([k \in 1..num_bins |->
            BinMax(samples, time_samples,
                   BinStart(start, end, num_bins, k - 1),
                   BinEnd(start, end, num_bins, k - 1), 1, None)])

\* Mutant of resample: series of different lengths give an empty result, no panic.
Resample_ToleratesMismatch(samples, time_samples, start, end, num_bins) ==
    IF samples = <<>> \/ time_samples = <<>> \/ num_bins = 0
    THEN Returned(<<>>)
    ELSE IF Len(samples) # Len(time_samples)
    THEN Returned(<<>>)
    ELSE Returned([k \in 1..num_bins |->
            BinMax(samples, time_samples,
                   BinStart(start, end, num_bins, k - 1),
                   BinEnd(start, end, num_bins, k - 1), 1, None)])

\* resample
Resample(samples, time_samples, start, end, num_bins) ==
    IF samples = <<>> \/ time_samples = <<>> \/ num_bins = 0
    THEN Returned(<<>>)
    ELSE IF Len(samples) # Len(time_samples)
    THEN Panicked
    ELSE Returned([k \in 1..num_bins |->
            BinMax(samples, time_samples,
                   BinStart(start, end, num_bins, k - 1),
                   BinEnd(start, end, num_bins, k - 1), 1, None)])

\* A caller is about to call resample with some arguments.
ResampleInit ==
    /\ processes = <<>>
    /\ children = <<>>
    /\ queue = <<>>
    /\ now = 0
    /\ app = [NewApp(<<>>) EXCEPT !.started = TRUE]
    /\ \E samples \in SeqsUpTo(ResValues, ResMaxLen),
          time_samples \in SeqsUpTo(0..ResMaxTime, ResMaxLen),
          start \in 0..ResMaxStart, end \in 0..ResMaxTime, num_bins \in 0..ResMaxBins :
          op = [kind |-> "call_resample", samples |-> samples,
                time_samples |-> time_samples, start |-> start, end |-> end,
                num_bins |-> num_bins, result |-> Returned(<<>>)]

\* The call is made; op holds the arguments and what came back.
ResampleCall ==
    /\ op.kind = "call_resample"
    /\ op' = [op EXCEPT !.kind = "resample",
                        !.result = Resample(op.samples, op.time_samples,
                                            op.start, op.end, op.num_bins)]
    /\ UNCHANGED <<processes, children, queue, now, app>>

ResampleNext == ResampleCall

ResampleSpec == ResampleInit /\ [][ResampleNext]_vars

\* resample has been called: op holds its arguments and its result.
Called == op.kind = "resample"

\* The call had non-empty series of equal length and a positive bin count.
Proper ==
    /\ Called
    /\ op.samples # <<>>
    /\ Len(op.samples) = Len(op.time_samples)
    /\ op.num_bins > 0

\* Boundaries of the i-th element's bin (i from 1), and the samples whose
\* timestamp t satisfies lower < t <= upper.
Lo(i) == BinStart(op.start, op.end, op.num_bins, i - 1)
Hi(i) == BinEnd(op.start, op.end, op.num_bins, i - 1)
Falling(i) ==
    {j \in 1..Len(op.time_samples) : Lo(i) < op.time_samples[j] /\ op.time_samples[j] <= Hi(i)}

\* Element i of the result is present and at least v.
Holds(i, v) == IsSome(op.result.bins[i]) /\ Unwrap(op.result.bins[i]) >= v

\* C14: for non-empty samples and timestamps of equal length and n > 0,
\* resample returns exactly n elements; element i is the maximum of the samples
\* with bin_start_i < t <= bin_end_i and is absent exactly when there is none;
\* samples before start or after end contribute to no bin.
C14_ResampleBinMax ==
    Proper =>
        /\ ~op.result.panic
        /\ Len(op.result.bins) = op.num_bins
        /\ \A i \in 1..op.num_bins :
            /\ Falling(i) = {} <=> op.result.bins[i] = None
            /\ Falling(i) # {} =>
                /\ \E j \in Falling(i) : op.result.bins[i] = Some(op.samples[j])
                /\ \A j \in Falling(i) : Holds(i, op.samples[j])
        /\ (\A j \in 1..Len(op.time_samples) :
                op.time_samples[j] <= op.start \/ op.time_samples[j] > op.end)
            => \A i \in 1..op.num_bins : op.result.bins[i] = None

\* Two samples fall in the first bin, the larger one first; the second bin is
\* empty although a sample lies after end.
C14_Witness ==
    /\ Proper
    /\ op.start = 1 /\ op.end = 3 /\ op.num_bins = 2
    /\ op.samples = <<2, 1>>
    /\ op.time_samples = <<2, 2>>
    /\ op.result.bins = <<Some(2), None>>

\* C15: resample returns an empty sequence whenever num_bins = 0, or samples
\* is empty, or time_samples is empty.
C15_ResampleEmpty ==
    (Called /\ (op.num_bins = 0 \/ op.samples = <<>> \/ op.time_samples = <<>>)) =>
        op.result = Returned(<<>>)

\* An empty series with a non-empty timestamp list gave the empty sequence.
C15_Witness ==
    /\ Called
    /\ op.samples = <<>>
    /\ op.time_samples # <<>>
    /\ op.num_bins > 0
    /\ op.result = Returned(<<>>)

\* C16 as stated: a sample whose timestamp equals a bin's lower boundary is not
\* counted in that bin, one whose timestamp equals a bin's upper boundary is
\* counted in it; a sample exactly at start is counted in no bin and a sample
\* on an interior boundary is counted in the lower of the two bins only.
C16_Original ==
    Proper =>
        /\ \A i \in 1..op.num_bins :
            /\ (\A k \in 1..Len(op.time_samples) : op.time_samples[k] = Lo(i))
                => op.result.bins[i] = None
            /\ \A j \in 1..Len(op.time_samples) :
                op.time_samples[j] = Hi(i) => Holds(i, op.samples[j])
        /\ (\A k \in 1..Len(op.time_samples) : op.time_samples[k] = op.start)
            => \A i \in 1..op.num_bins : op.result.bins[i] = None
        /\ \A i \in 1..(op.num_bins - 1) :
            (\A k \in 1..Len(op.time_samples) : op.time_samples[k] = Hi(i))
                => IsSome(op.result.bins[i]) /\ op.result.bins[i + 1] = None

\* C16 (amended): the same for bins of positive width; when the truncated bin
\* width is zero (end - start < n time units) every bin is empty: no sample is
\* counted, a sample on the common boundary included.
C16_BoundaryPolicy ==
    Proper =>
        /\ \A i \in 1..op.num_bins :
            (\A k \in 1..Len(op.time_samples) : op.time_samples[k] = Lo(i))
                => op.result.bins[i] = None
        /\ (\A k \in 1..Len(op.time_samples) : op.time_samples[k] = op.start)
            => \A i \in 1..op.num_bins : op.result.bins[i] = None
        /\ BinDuration(op.start, op.end, op.num_bins) > 0 =>
            /\ \A i \in 1..op.num_bins : \A j \in 1..Len(op.time_samples) :
                op.time_samples[j] = Hi(i) => Holds(i, op.samples[j])
            /\ \A i \in 1..(op.num_bins - 1) :
                (\A k \in 1..Len(op.time_samples) : op.time_samples[k] = Hi(i))
                    => IsSome(op.result.bins[i]) /\ op.result.bins[i + 1] = None
        /\ BinDuration(op.start, op.end, op.num_bins) = 0 =>
            \A i \in 1..op.num_bins : op.result.bins[i] = None

\* One sample on the boundary between the first and the second bin: it is in
\* the first bin only.
C16_Witness ==
    /\ Proper
    /\ op.start = 0 /\ op.end = 4 /\ op.num_bins = 2
    /\ op.samples = <<1>>
    /\ op.time_samples = <<2>>
    /\ op.result.bins = <<Some(1), None>>

\* C17: for start < end and n > 0 the n bins partition (start, end]: every
\* sample with start < t <= end is counted in a bin (exactly one), and a sample
\* exactly at end is counted in the last bin, also when end - start is not a
\* multiple of n.
C17_BinsPartitionWindow ==
    (Proper /\ op.start < op.end) =>
        /\ \A j \in 1..Len(op.time_samples) :
            (op.start < op.time_samples[j] /\ op.time_samples[j] <= op.end)
                => \E i \in 1..op.num_bins : Holds(i, op.samples[j])
        /\ \A j \in 1..Len(op.time_samples) :
            op.time_samples[j] = op.end => Holds(op.num_bins, op.samples[j])
        /\ (Len(op.samples) = 1 /\ op.start < op.time_samples[1] /\ op.time_samples[1] <= op.end)
            => Cardinality({i \in 1..op.num_bins : IsSome(op.result.bins[i])}) = 1

\* C18 as stated: a call with samples and time_samples of different lengths
\* always panics, also when one of the two is empty.
C18_Original ==
    (Called /\ Len(op.samples) # Len(op.time_samples)) => op.result.panic

\* C18 (amended): a call with non-empty samples and time_samples of different
\* lengths and num_bins > 0 panics; when one of the two is empty, or num_bins
\* is 0, the call returns the empty sequence and does not panic.
C18_MismatchPanics ==
    (Called /\ Len(op.samples) # Len(op.time_samples)) =>
        IF op.samples # <<>> /\ op.time_samples # <<>> /\ op.num_bins > 0
        THEN op.result.panic
        ELSE op.result = Returned(<<>>)

\* Two samples with one timestamp, three bins: the call panicked.
C18_Witness ==
    /\ Called
    /\ Len(op.samples) = 2
    /\ Len(op.time_samples) = 1
    /\ op.num_bins = 3
    /\ op.result.panic

(* -------------------------------- App --------------------------------- *)
\* Bound of the App specification: the longest service list of a document.
AppMaxDoc == 2

\* The services the configuration file may list: two that can be started and
\* one whose command cannot be built (no image and no command).
SvcWeb ==
    [name |-> "web", image |-> None, command |-> Some("run --port 1"),
     directory |-> None, restart |-> RestartPolicy(TRUE, MaxCooloff, MaxRestartsCfg)]
SvcDb ==
    [name |-> "db", image |-> None, command |-> Some("run --port 1"),
     directory |-> None, restart |-> RestartPolicy(FALSE, MaxCooloff, MaxRestartsCfg)]
SvcBad ==
    [name |-> "db", image |-> None, command |-> None,
     directory |-> None, restart |-> RestartPolicy(FALSE, MaxCooloff, MaxRestartsCfg)]
DocServices == {SvcWeb, SvcDb, SvcBad}

\* The documents load_from_file may yield: ProcliConfig.services.
Documents == SeqsUpTo(DocServices, AppMaxDoc)

ReloadEvent == [kind |-> "Reload", id |-> 0, status |-> "none"]

\* App::start, the loop over config.services from the k-th on: `?` leaves the
\* loop at the first upsert that fails. oks[k] is the OS outcome of the k-th.
RECURSIVE StartServices(_, _, _, _, _, _)
StartServices(procs, kids, services, oks, k, t) ==
    IF k > Len(services) THEN [procs |-> procs, kids |-> kids, ok |-> TRUE]
    ELSE LET r == ManagerUpsert(procs, kids, services[k], oks[k], t)
         IN  IF IsSome(r.res)
             THEN StartServices(r.procs, r.kids, services, oks, k + 1, t)
             ELSE [procs |-> r.procs, kids |-> r.kids, ok |-> FALSE]

\* App::start
AppStart(procs, kids, config, oks, t) == StartServices(procs, kids, config, oks, 1, t)

\* ConfigManager::reload; loaded is what load_from_file gives: None for an
\* error (`?` returns before the assignment), Some(document) otherwise.
ConfigReload(a, loaded) ==
    IF IsSome(loaded) THEN [a EXCEPT !.config = Unwrap(loaded)] ELSE a

\* Mutant of reload_config: a document that fails to load counts as the empty
\* document.
AppReloadConfig_DefaultOnError(a, procs, kids, loaded, oks, t) ==
    LET doc == IF IsSome(loaded) THEN Unwrap(loaded) ELSE <<>>
        r == AppStart(procs, kids, doc, oks, t)
    IN  [app |-> [a EXCEPT !.config = doc], procs |-> r.procs, kids |-> r.kids, ok |-> r.ok]

\* App::reload_config
AppReloadConfig(a, procs, kids, loaded, oks, t) ==
    IF IsSome(loaded)
    THEN LET r == AppStart(procs, kids, Unwrap(loaded), oks, t)
         IN  [app |-> ConfigReload(a, loaded), procs |-> r.procs, kids |-> r.kids, ok |-> r.ok]
    ELSE [app |-> a, procs |-> procs, kids |-> kids, ok |-> FALSE]

\* App::new has loaded some document.
AppInit ==
    /\ processes = <<>>
    /\ children = <<>>
    /\ queue = <<>>
    /\ now = 0
    /\ \E d \in Documents : app = NewApp(d)
    /\ op = [kind |-> "init"]

\* App::run, before the loop: start(self.config.current()).
AppRun ==
    /\ ~app.started
    /\ Len(processes) + Len(app.config) <= MaxProcs
    /\ Len(children) + Len(app.config) <= MaxUuid
    /\ \E oks \in [1..AppMaxDoc -> BOOLEAN] :
          LET r == AppStart(processes, children, app.config, oks, now)
          IN  /\ processes' = r.procs
              /\ children' = r.kids
              /\ op' = [kind |-> "start", ok |-> r.ok]
    /\ app' = [app EXCEPT !.started = TRUE]
    /\ UNCHANGED <<queue, now>>

\* The file watcher's callback sends Reload (`let _ = sender.send(..)`).
ConfigChanged ==
    /\ app.rx_open
    /\ Len(queue) < MaxQueue
    /\ queue' = Append(queue, ReloadEvent)
    /\ op' = [kind |-> "env"]
    /\ UNCHANGED <<processes, children, now, app>>

\* App::run dequeues Reload and calls reload_config.
HandleReload ==
    /\ InLoop
    /\ queue # <<>>
    /\ Head(queue).kind = "Reload"
    /\ \E loaded \in {None} \cup {Some(d) : d \in Documents}, oks \in [1..AppMaxDoc -> BOOLEAN] :
          /\ IsSome(loaded) =>
                /\ Len(processes) + Len(Unwrap(loaded)) <= MaxProcs
                /\ Len(children) + Len(Unwrap(loaded)) <= MaxUuid
          /\ LET r == AppReloadConfig(app, processes, children, loaded, oks, now)
             IN  /\ app' = r.app
                 /\ processes' = r.procs
                 /\ children' = r.kids
                 /\ op' = [kind |-> "reload", loaded |-> loaded, ok |-> r.ok]
    /\ queue' = Tail(queue)
    /\ UNCHANGED now

QuitEvent == [kind |-> "Quit", id |-> 0, status |-> "none"]

\* The keys an Input event may carry: quit, reload, and one with no binding.
Keys == {"q", "r", "x"}

\* App::run receives a key press and calls handle_key_events.
HandleKey(key) ==
    /\ InLoop
    /\ Len(queue) < MaxQueue
    /\ queue' = CASE key = "q" -> Append(queue, QuitEvent)
                  [] key = "r" -> Append(queue, ReloadEvent)
                  [] OTHER -> queue
    /\ op' = [kind |-> "key", key |-> key]
    /\ UNCHANGED <<processes, children, now, app>>

\* Bound of the App specification: the render ticks handled.
AppMaxTicks == 1

\* App::run receives Event::Tick and calls App::tick.
HandleTick ==
    /\ InLoop
    /\ app.ui.tick < AppMaxTicks
    /\ app' = [app EXCEPT !.ui = UiStateTick(@)]
    /\ op' = [kind |-> "render_tick"]
    /\ UNCHANGED <<processes, children, queue, now>>

\* App::run dequeues Quit and calls quit.
HandleQuit ==
    /\ InLoop
    /\ queue # <<>>
    /\ Head(queue).kind = "Quit"
    /\ queue' = Tail(queue)
    /\ app' = [app EXCEPT !.running = FALSE]
    /\ op' = [kind |-> "quit"]
    /\ UNCHANGED <<processes, children, now>>

\* run() has returned and main drops the App: the receiving end of the queue
\* is gone, with what was still queued, and so is the termination channel of
\* every record.
AppDropped ==
    /\ app.started
    /\ ~app.running
    /\ app.rx_open
    /\ app' = [app EXCEPT !.rx_open = FALSE]
    /\ queue' = <<>>
    /\ children' = [c \in 1..Len(children) |->
                        IF /\ children[c].os \in {"running", "exited"}
                           /\ \E i \in 1..Len(processes) : processes[i].closer = Some(c)
                        THEN [children[c] EXCEPT !.closed = TRUE]
                        ELSE children[c]]
    /\ op' = [kind |-> "env"]
    /\ UNCHANGED <<processes, now>>

\* death_handler, branch child.wait(), the queue being closed: send returns
\* Err and `.expect` panics; the watcher task ends by that panic.
WatcherReportClosed(c) ==
    /\ ~app.rx_open
    /\ children[c].os = "exited"
    /\ children' = [children EXCEPT ![c] = [NoChild EXCEPT !.os = "reaped", !.deaths = children[c].deaths]]
    /\ op' = [kind |-> "send_closed", task |-> "watcher", panic |-> TRUE]
    /\ UNCHANGED <<processes, queue, now, app>>

\* The periodic task sends StatsRefresh, the queue being closed: send returns
\* Err and `.expect` panics; the task ends by that panic.
TickerClosed ==
    /\ app.ticker
    /\ ~app.rx_open
    /\ app' = [app EXCEPT !.ticker = FALSE]
    /\ op' = [kind |-> "send_closed", task |-> "ticker", panic |-> TRUE]
    /\ UNCHANGED <<processes, children, queue, now>>

\* stdout_log_pump / stderr_log_pump: a line of the child goes to the log.
LogPump(c) ==
    /\ children[c].os = "running"
    /\ op' = [kind |-> "env"]
    /\ UNCHANGED <<processes, children, queue, now, app>>

AppNext ==
    \/ AppRun
    \/ ConfigChanged
    \/ HandleReload
    \/ \E key \in Keys : HandleKey(key)
    \/ HandleTick
    \/ HandleQuit
    \/ AppDropped
    \/ \E c \in 1..Len(children) : WatcherReportClosed(c)
    \/ TickerClosed
    \/ \E c \in 1..Len(children) : LogPump(c)
    \/ Advance
    \/ \E c \in 1..Len(children) : ChildExit(c)
    \/ \E c \in 1..Len(children) : WatcherKill(c)
    \/ \E c \in 1..Len(children) : WatcherReport(c)
    \/ Ticker
    \/ HandleProcessDied
    \/ HandleStatsRefresh

AppSpec == AppInit /\ [][AppNext]_vars

\* The names a document lists, and the names the manager tracks.
DocNames(d) == {d[k].name : k \in 1..Len(d)}
Tracked(procs) == {procs[i].name : i \in 1..Len(procs)}

\* C19: handling a Reload whose configuration loads starts every service that
\* is newly present in the document (when no start fails: a record of that
\* name with a running child of a new incarnation), requests termination of every tracked service whose name is
\* no longer in the document (its termination channel is dropped), and spawns
\* no service present in both a second time (no new record, same incarnation).
C19_ReloadDiffsByName ==
    [][(op'.kind = "reload" /\ IsSome(op'.loaded)) =>
        LET doc == Unwrap(op'.loaded)
        IN  /\ op'.ok =>
                \A name \in DocNames(doc) \ Tracked(processes) :
                    \E i \in Named(processes', name) :
                        /\ processes'[i].uuid > Len(children)
                        /\ children'[processes'[i].uuid].os = "running"
            /\ \A i \in 1..Len(processes) :
                processes[i].name \notin DocNames(doc) =>
                    /\ processes'[i].closer = None
                    /\ (/\ IsSome(processes[i].closer)
                        /\ children[Unwrap(processes[i].closer)].os \in {"running", "exited"})
                          => children'[Unwrap(processes[i].closer)].closed
            /\ \A i \in 1..Len(processes) :
                processes[i].name \in DocNames(doc) =>
                    /\ processes'[i].uuid = processes[i].uuid
                    /\ Named(processes', processes[i].name) = Named(processes, processes[i].name)]_vars

\* C20: when loading the configuration fails during a Reload, the stored
\* configuration and the whole process collection are unchanged, no process
\* is spawned or killed, and the event loop keeps running.
C20_FailedReloadChangesNothing ==
    [][(op'.kind = "reload" /\ op'.loaded = None) =>
        /\ app'.config = app.config
        /\ processes' = processes
        /\ children' = children
        /\ app'.running /\ app'.started]_vars

\* A Reload has just failed to load while a service of a non-empty
\* configuration has a running child.
C20_Witness ==
    /\ op.kind = "reload"
    /\ op.loaded = None
    /\ app.config # <<>>
    /\ InLoop
    /\ \E i \in 1..Len(processes) :
        /\ IsSome(processes[i].closer)
        /\ children[processes[i].uuid].os = "running"

\* C23: a record's pid is present only while its OS process exists: when the
\* death of its current incarnation has been consumed (state Stopped, the
\* child reaped), or when it was never spawned, its pid is absent.
C23_PidOnlyWhileAlive ==
    \A i \in 1..Len(processes) :
        /\ (/\ processes[i].state.tag = "Stopped"
            /\ processes[i].uuid # NilUuid
            /\ children[processes[i].uuid].os = "reaped") => processes[i].pid = None
        /\ processes[i].last_start = None => processes[i].pid = None

\* C29: a record becomes Running only through a stat sample that tick() gives
\* to a record whose pid is present: Running implies a non-empty history and a
\* pid, and the stat distribution skips a record with no pid (state and
\* history unchanged).
C29_RunningOnlyBySample ==
    [][/\ \A i \in 1..Len(processes') :
            processes'[i].state = Running =>
                /\ processes'[i].stats # <<>>
                /\ IsSome(processes'[i].pid)
       /\ \A i \in 1..Len(processes) :
            (processes'[i].state = Running /\ processes[i].state # Running) =>
                /\ op'.kind = "tick"
                /\ IsSome(processes[i].pid)
                /\ Len(processes'[i].stats) = Len(processes[i].stats) + 1
       /\ op'.kind = "tick" =>
            \A i \in 1..Len(processes) :
                processes[i].pid = None =>
                    /\ processes'[i].state = processes[i].state
                    /\ processes'[i].stats = processes[i].stats]_vars

\* A tick has made one record Running while a record whose spawn failed (no
\* pid) is still Starting with an empty history.
C29_Witness ==
    /\ op.kind = "tick"
    /\ \E i \in 1..Len(processes) :
        /\ processes[i].state = Running
        /\ Len(processes[i].stats) = 1
        /\ IsSome(processes[i].pid)
    /\ \E j \in 1..Len(processes) :
        /\ processes[j].pid = None
        /\ processes[j].uuid # NilUuid
        /\ processes[j].state = Starting
        /\ processes[j].stats = <<>>

\* C30: in every reachable state the restart counter of a record with an
\* enabled policy is at most max_restarts.
C30_RestartsAtMostMax ==
    \A i \in 1..Len(processes) :
        processes[i].restart_policy.enabled =>
            processes[i].restarts <= processes[i].restart_policy.max_restarts

\* C24: the stat history of each record is bounded by a fixed B, whatever the
\* number of tick()/push_stats calls: here for every B below StatsMaxLen, the
\* number of samples a live record is given.
C24_HistoryBounded ==
    \A i \in 1..Len(processes) : Len(processes[i].stats) < StatsMaxLen

(* ------------------- two services with a restart policy ---------------- *)
\* Bound of this specification: the incarnations drawn (two starts and one
\* restart attempt of each record, and one more).
PairMaxUuid == 5

\* Two services, both restarted on exit.
PairServices == <<SvcWeb, [SvcDb EXCEPT !.restart = RestartPolicy(TRUE, MaxCooloff, MaxRestartsCfg)]>>

\* App::run has started both services.
PairInit ==
    /\ LET r == AppStart(<<>>, <<>>, PairServices, <<TRUE, TRUE>>, 0)
       IN  /\ processes = r.procs
           /\ children = r.kids
    /\ queue = <<>>
    /\ now = 0
    /\ app = [NewApp(PairServices) EXCEPT !.started = TRUE]
    /\ op = [kind |-> "start", ok |-> TRUE]

\* No termination channel is dropped while its child lives (no remove, no
\* second upsert), so the watchers' kill branch has no step here.
PairTick == StatsRefreshHandled(PairMaxUuid, MaxStats)

PairNext ==
    \/ Advance
    \/ \E c \in 1..Len(children) : ChildExit(c)
    \/ \E c \in 1..Len(children) : WatcherReport(c)
    \/ Ticker
    \/ HandleProcessDied
    \/ PairTick

PairSpec == PairInit /\ [][PairNext]_vars

\* The restart scan attempted record i and the OS did not start the command.
FailedAttempt(i) ==
    /\ DueAtScan(i)
    /\ processes'[i].uuid > Len(children)
    /\ children'[processes'[i].uuid].os = "none"

\* C21: when a spawn fails during the restart scan of tick(), the tick makes
\* no second attempt for that record (one new incarnation per due record), it
\* is not aborted, and every other record that is due in the same tick still
\* gets its spawn and is respawned.
C21_FailedRestartIsolated ==
    [][(op'.kind = "tick" /\ \E i \in 1..Len(processes) : FailedAttempt(i)) =>
        /\ Len(children') - Len(children) = Cardinality({i \in 1..Len(processes) : DueAtScan(i)})
        /\ \A i \in 1..Len(processes) :
            /\ FailedAttempt(i) =>
                /\ DueAttemptedOnce(i)
                /\ processes'[i].pid = processes[i].pid
                /\ processes'[i].closer = processes[i].closer
            /\ (DueAtScan(i) /\ ~FailedAttempt(i)) =>
                /\ DueAttemptedOnce(i)
                /\ Respawned(i)]_vars

\* One tick found both records due: the spawn of the first failed, the second
\* has a running child of a new incarnation.
C21_Witness ==
    /\ op.kind = "tick"
    /\ Len(processes) = 2
    /\ processes[1].restarts = 1 /\ processes[2].restarts = 1
    /\ processes[1].uuid = 3 /\ children[3].os = "none"
    /\ processes[2].uuid = 4 /\ children[4].os = "running"
    /\ processes[2].pid = Some(4)

(* ------------------------- the UI tick counter ------------------------- *)
\* Bound of this specification: the calls of UiState::tick (two rounds of the
\* counter).
UiMaxCalls == 124

UiInit ==
    /\ processes = <<>>
    /\ children = <<>>
    /\ queue = <<>>
    /\ now = 0
    /\ app = [NewApp(<<>>) EXCEPT !.started = TRUE]
    /\ op = [kind |-> "ui_tick", calls |-> 0]

\* App::tick: one more call of ui_state.tick(); op counts the calls.
UiTickCall ==
    /\ op.calls < UiMaxCalls
    /\ app' = [app EXCEPT !.ui = UiStateTick(@)]
    /\ op' = [kind |-> "ui_tick", calls |-> op.calls + 1]
    /\ UNCHANGED <<processes, children, queue, now>>

UiNext == UiTickCall

UiSpec == UiInit /\ [][UiNext]_vars

\* s is floor(m * k / TICK_FPS) mod m.
IsStep(s, m, k) ==
    \E q \in 0..(m * k) :
        /\ q * TICK_FPS <= m * k
        /\ m * k < (q + 1) * TICK_FPS
        /\ s = q % m

\* C28: after k calls of UiState::tick() from the default state, 0 <= k <= 60,
\* step_of_4_in_1_second = floor(4k/30) mod 4, step_of_8_in_1_second =
\* floor(8k/30) mod 8 and step_of_8_in_2_second = floor(4k/30) mod 8; the
\* counter always stays within 0..2*TICK_FPS and each step within its range.
C28_StepsFollowTicks ==
    /\ TICK_FPS = 30
    /\ app.ui.tick \in 0..(2 * TICK_FPS)
    /\ step_of_4_in_1_second(app.ui) \in 0..3
    /\ step_of_8_in_1_second(app.ui) \in 0..7
    /\ step_of_8_in_2_second(app.ui) \in 0..7
    /\ op.calls <= 60 =>
        /\ app.ui.tick = op.calls
        /\ IsStep(step_of_4_in_1_second(app.ui), 4, op.calls)
        /\ IsStep(step_of_8_in_1_second(app.ui), 8, op.calls)
        /\ step_of_8_in_2_second(app.ui) = ((4 * op.calls) \div 30) % 8

\* After 60 calls the counter is 60 (it has not wrapped) and the steps are 0,
\* 0 and 0, as the last row of the test table has them.
C28_Witness ==
    /\ op.calls = 60
    /\ app.ui.tick = 60
    /\ step_of_4_in_1_second(app.ui) = 0
    /\ step_of_8_in_1_second(app.ui) = 0
    /\ step_of_8_in_2_second(app.ui) = 0

\* The kinds op takes when App::run handles an event (a dequeued one, a render
\* tick or a key press).
HandledKinds == {"process_died", "tick", "reload", "quit", "render_tick", "key"}

\* The step handles the event at the head of the queue.
Dequeues == op'.kind \in {"process_died", "tick", "reload", "quit"}

\* C22: handling Quit takes it from the head of the queue and sets running to
\* false; once running is false no event is dequeued or handled (the records,
\* the configuration and the ui state stay as they are and nothing leaves the
\* queue but by the drop of the App); the key 'q' only appends Quit at the tail
\* of the queue, and whatever is dequeued is the head, so the events queued
\* before Quit are handled first.
C22_QuitStopsLoop ==
    [][ /\ op'.kind = "quit" =>
            /\ app.running
            /\ ~app'.running
            /\ Head(queue) = QuitEvent
            /\ queue' = Tail(queue)
        /\ (app.started /\ ~app.running) =>
            /\ ~app'.running
            /\ op'.kind \notin HandledKinds
            /\ processes' = processes
            /\ app'.config = app.config
            /\ app'.ui = app.ui
            /\ \/ Len(queue') >= Len(queue) /\ SubSeq(queue', 1, Len(queue)) = queue
               \/ ~app'.rx_open /\ queue' = <<>>
        /\ (op'.kind = "key" /\ op'.key = "q") =>
            /\ queue' = Append(queue, QuitEvent)
            /\ app' = app
            /\ processes' = processes
        /\ (Dequeues /\ Len(queue) > 1 /\ queue[Len(queue)] = QuitEvent /\ op'.kind # "quit") =>
            /\ app'.running
            /\ queue' = Tail(queue)
            /\ queue'[Len(queue')] = QuitEvent
      ]_vars

\* Quit was handled while an event queued after it was still waiting: the loop
\* has stopped and that event stays unhandled.
C22_Witness ==
    /\ op.kind = "quit"
    /\ ~app.running
    /\ app.started
    /\ Len(processes) > 0
    /\ queue # <<>>

\* The kinds op takes when the consumer handles a dequeued ProcessDied,
\* StatsRefresh or Reload.
WriterKinds == {"process_died", "tick", "reload"}

\* C27 as stated: the records and the collection change only in a step that
\* handles a dequeued ProcessDied, StatsRefresh or Reload.
C27_OnlyDequeuedEventsWrite ==
    [][processes' # processes => op'.kind \in WriterKinds]_vars

\* C27, amended: the records and the collection change only in a step of the
\* consumer that handles a dequeued ProcessDied, StatsRefresh or Reload, or in
\* the start of the services that run() makes before it enters the loop; the
\* steps of the background tasks and the handling of a render tick, a key and
\* Quit leave them unchanged; a step that handles a queued event takes exactly
\* the head of the queue, and handles it whole.
C27_SingleWriter ==
    [][ /\ processes' # processes =>
            \/ op'.kind \in WriterKinds /\ InLoop
            \/ op'.kind = "start" /\ ~app.started
        /\ op'.kind \in {"env", "send_closed", "render_tick", "key", "quit"} =>
            processes' = processes
        /\ Dequeues =>
            /\ InLoop
            /\ queue # <<>>
            /\ queue' = Tail(queue)
      ]_vars

\* A death watcher has reported the exit of the current incarnation of a
\* record and the record is as it was: the event waits in the queue.
C27_Witness ==
    /\ op.kind = "env"
    /\ \E i \in 1..Len(processes) :
          /\ processes[i].state.tag # "Stopped"
          /\ processes[i].uuid # NilUuid
          /\ DiedInQueue(queue, processes[i].uuid) # {}
          /\ children[processes[i].uuid].os = "reaped"

\* C25: a send of a background task on the closed queue is a no-op that does
\* not make the task panic.
C25_ClosedSendHarmless ==
    [][op'.kind = "send_closed" => ~op'.panic]_vars

(* ------------------- termination requests and the watcher ------------------- *)
\* Bound of the termination specification: the incarnations drawn.
KillMaxUuid == 4

KillServices == <<SvcWeb, SvcDb>>

\* App::run has started both services.
KillInit ==
    /\ LET r == AppStart(<<>>, <<>>, KillServices, <<TRUE, TRUE>>, 0)
       IN  /\ processes = r.procs
           /\ children = r.kids
    /\ queue = <<>>
    /\ now = 0
    /\ app = [NewApp(KillServices) EXCEPT !.started = TRUE]
    /\ op = [kind |-> "start", ok |-> TRUE]

\* death_handler, branch closed.closed(), start_kill gives Err: the error is
\* logged and the watcher loops.
WatcherKillFails(c) ==
    /\ c <= Len(children)
    /\ children[c].os \in {"running", "exited"}
    /\ children[c].closed
    /\ ~children[c].killed
    /\ op' = [kind |-> "kill_failed", id |-> c]
    /\ UNCHANGED <<processes, children, queue, now, app>>

\* The signal of start_kill takes effect: the killed child exits.
KilledExit(c) ==
    /\ c <= Len(children)
    /\ children[c].killed
    /\ ChildExit(c)

KillTick == StatsRefreshHandled(KillMaxUuid, MaxStats)

KillNext ==
    \/ Advance
    \/ \E c \in 1..Len(children) : ChildExit(c)
    \/ \E c \in 1..Len(children) : WatcherKill(c)
    \/ \E c \in 1..Len(children) : WatcherKillFails(c)
    \/ \E c \in 1..Len(children) : WatcherReport(c)
    \/ Ticker
    \/ HandleProcessDied
    \/ KillTick
    \/ \E name \in {"web", "db"} : CallRemove(name)

\* The watchers and the consumer keep running, a send finds room in the queue
\* (the queue of the program is unbounded), and a kill signal takes effect.
KillFairness ==
    /\ WF_vars(HandleProcessDied)
    /\ WF_vars(KillTick)
    /\ \A c \in 1..KillMaxUuid : WF_vars(c <= Len(children) /\ WatcherKill(c))
    /\ \A c \in 1..KillMaxUuid : SF_vars(c <= Len(children) /\ WatcherReport(c))
    /\ \A c \in 1..KillMaxUuid : WF_vars(KilledExit(c))

KillSpec == KillInit /\ [][KillNext]_vars /\ KillFairness

\* Process::kill was called on the record that holds incarnation c while the
\* child lives: its termination channel is closed and the record keeps c.
KillRequested(c) ==
    /\ c <= Len(children)
    /\ children[c].os = "running"
    /\ children[c].closed
    /\ \E i \in 1..Len(processes) : processes[i].uuid = c /\ processes[i].closer = None

\* The record of incarnation c is Stopped, the one ProcessDied of c consumed.
StoppedByDeath(c) ==
    /\ c <= Len(children)
    /\ children[c].os = "reaped"
    /\ children[c].deaths = 1
    /\ DiedInQueue(queue, c) = {}
    /\ \E i \in 1..Len(processes) :
          processes[i].uuid = c /\ processes[i].state.tag = "Stopped"

\* The StatsRefresh at the head of the queue cannot be handled within the
\* bounds of the specification.
TickBlocked ==
    /\ queue # <<>>
    /\ Head(queue).kind = "StatsRefresh"
    /\ \/ Len(children) + Len(DueNames(processes, 1, now)) > KillMaxUuid
       \/ \E i \in 1..Len(processes) :
             HasInfo(processes[i], children) /\ Len(processes[i].stats) >= MaxStats

\* The step sends ProcessDied for incarnation c.
SendsDied(c) ==
    /\ c <= Len(children)
    /\ \/ children'[c].deaths > children[c].deaths
       \/ \E k \in DiedInQueue(queue', c) : k > Len(queue)

\* The watcher side of C26: a ProcessDied(c, status) is sent only when the exit
\* of child c has been observed, with the status of that exit, and the watcher
\* has ended after it (one event per incarnation at most); a kill issued or
\* failed changes nothing else of the child, sends nothing and leaves the
\* watcher waiting.
C26_WatcherSteps ==
    [][ \A c \in 1..KillMaxUuid :
          /\ SendsDied(c) =>
                /\ children[c].os = "exited"
                /\ children'[c].os = "reaped"
                /\ children'[c].deaths = 1
                /\ queue' = Append(queue, ProcessDiedEvent(c, children[c].status))
          /\ (c <= Len(children) /\ ~children[c].killed /\ children'[c].killed) =>
                /\ children[c].closed
                /\ children'[c].os = children[c].os
                /\ children[c].os \in {"running", "exited"}
                /\ queue' = queue
          /\ (op'.kind = "kill_failed" /\ op'.id = c) =>
                /\ children' = children
                /\ children[c].os \in {"running", "exited"}
                /\ queue' = queue
      ]_vars

\* C26: a ProcessDied is sent only after the exit of the child was observed
\* and the watcher ends with it; a kill issued or failed leaves the watcher
\* waiting; and when Process::kill was called on the record of a live child c,
\* the kill taking effect and the consumer running, that record is eventually
\* Stopped with the one ProcessDied of c consumed (or the bounds of the
\* specification keep the StatsRefresh at the head of the queue from being
\* handled).
C26_KillReachesStopped ==
    /\ C26_WatcherSteps
    /\ \A c \in 1..KillMaxUuid : KillRequested(c) ~> (StoppedByDeath(c) \/ TickBlocked)

\* remove(name) was called on record i after its last successful spawn:
\* Process::kill took the termination channel and no spawn has set a new one.
Removed(i) == processes[i].uuid # NilUuid /\ processes[i].closer = None

\* C31: a record whose termination was requested by a successful remove(name)
\* gets no new incarnation from a later tick(), whatever its restart policy
\* and whether it was running or Stopped(RestartAt(_), _) at the remove.
C31_RemovedNeverRespawned ==
    [][\A i \in 1..Len(processes) :
          (Removed(i) /\ op'.kind = "tick") => processes'[i].uuid = processes[i].uuid]_vars

\* The ProcessDied of incarnation c has been sent and dequeued.
DeathConsumed(c) ==
    /\ children[c].os = "reaped"
    /\ children[c].deaths = 1
    /\ DiedInQueue(queue, c) = {}

\* C32: when tick() gives record i a new incarnation, the death notification
\* of the incarnation it replaces (one that had a child) has been consumed;
\* so an incarnation started by a restart that exits before its sample or its
\* death notification is processed is not replaced by the next tick().
C32_RespawnAfterConsumedDeath ==
    [][\A i \in 1..Len(processes) :
          ( /\ op'.kind = "tick"
            /\ processes'[i].uuid # processes[i].uuid
            /\ children[processes[i].uuid].os # "none" )
          => DeathConsumed(processes[i].uuid)]_vars

\* C33: a record has at most one live child: when a step (upsert or tick())
\* spawns a new child for record i, the child of the incarnation the record
\* held before is not running any more.
C33_OneLiveChildPerRecord ==
    [][\A i \in 1..Len(processes) :
          ( /\ processes[i].uuid # NilUuid
            /\ processes'[i].uuid # processes[i].uuid
            /\ children'[processes'[i].uuid].os = "running" )
          => children[processes[i].uuid].os # "running"]_vars

\* C34: every running child is the current incarnation of some record or has
\* had its termination requested (its termination channel is closed).
C34_NoUnsupervisedChild ==
    \A c \in 1..Len(children) :
        children[c].os = "running" =>
            \/ Matching(processes, c) # {}
            \/ children[c].closed

\* C35: an upsert that returns an error leaves the collection as it was
\* before the call, for a command that cannot be built as for a command the OS
\* fails to start.
C35_FailedUpsertLeavesCollection ==
    [][(op'.kind = "upsert" /\ op'.res = None) => processes' = processes]_vars

\* C36: after App::start(config) every service of config whose own upsert
\* can succeed has been upserted, wherever a failing service stands in the
\* list; checked for the services that can be built and come after services
\* that cannot: a record of their name is tracked after the start.
C36_StartContinuesAfterError ==
    [][op'.kind = "start" =>
          \A k \in 1..Len(app.config) :
              ( /\ BuildCommandOk(app.config[k])
                /\ \A j \in 1..(k - 1) : ~BuildCommandOk(app.config[j]) )
              => app.config[k].name \in Tracked(processes')]_vars

(* ------------------------- liveness of the restart ------------------------- *)
\* Bounds of the restart specification: the incarnations drawn, the length of
\* a history, the instants.
RestartMaxUuid == 3
RestartMaxStats == 2
RestartMaxTime == 2

RestartServices == <<SvcWeb>>

\* App::run has started the service.
RestartInit ==
    /\ LET r == AppStart(<<>>, <<>>, RestartServices, <<TRUE, TRUE>>, 0)
       IN  /\ processes = r.procs
           /\ children = r.kids
    /\ queue = <<>>
    /\ now = 0
    /\ app = [NewApp(RestartServices) EXCEPT !.started = TRUE]
    /\ op = [kind |-> "start", ok |-> TRUE]

\* Time passes, up to the last instant of the restart specification.
RestartAdvance ==
    /\ now < RestartMaxTime
    /\ now' = now + 1
    /\ op' = [kind |-> "env"]
    /\ UNCHANGED <<processes, children, queue, app>>

\* App::run dequeues StatsRefresh and calls tick; the OS starts every command
\* the tick spawns.
RestartTick ==
    /\ StatsRefreshHandled(RestartMaxUuid, RestartMaxStats)
    /\ \A c \in (Len(children) + 1)..Len(children') : children'[c].os = "running"

RestartNext ==
    \/ RestartAdvance
    \/ \E c \in 1..Len(children) : ChildExit(c)
    \/ \E c \in 1..Len(children) : WatcherReport(c)
    \/ Ticker
    \/ HandleProcessDied
    \/ RestartTick

\* StatsRefresh events keep being delivered (the ticker sends whenever the
\* queue has room for a while), time advances and the consumer keeps running.
RestartFairness ==
    /\ WF_vars(RestartAdvance)
    /\ WF_vars(Ticker)
    /\ WF_vars(HandleProcessDied)
    /\ WF_vars(RestartTick)

RestartSpec == RestartInit /\ [][RestartNext]_vars /\ RestartFairness

\* Record i holds incarnation u, whose death was consumed with a restart
\* granted: it is Stopped(RestartAt(_), _).
AwaitsRestart(i, u) ==
    /\ u <= Len(children)
    /\ processes[i].uuid = u
    /\ DeathConsumed(u)
    /\ processes[i].state.tag = "Stopped"
    /\ IsSome(processes[i].state.restart)

\* Record i runs under an incarnation drawn after u.
RespawnedAfter(i, u) ==
    /\ processes[i].uuid > u
    /\ children[processes[i].uuid].os = "running"

\* The bounds of the restart specification keep the restart of record i from
\* happening: the last instant is before the restart instant, or the
\* StatsRefresh at the head of the queue cannot be handled.
RestartBlocked(i) ==
    \/ /\ now = RestartMaxTime
       /\ processes[i].state.tag = "Stopped"
       /\ IsSome(processes[i].state.restart)
       /\ Unwrap(processes[i].state.restart) > now
    \/ /\ queue # <<>>
       /\ Head(queue).kind = "StatsRefresh"
       /\ \/ Len(children) + Len(DueNames(processes, 1, now)) > RestartMaxUuid
          \/ \E j \in 1..Len(processes) :
                HasInfo(processes[j], children) /\ Len(processes[j].stats) >= RestartMaxStats

\* C37: a record whose incarnation's death was consumed with a restart granted
\* (policy enabled, restarts < max_restarts) is eventually respawned with a new
\* incarnation, StatsRefresh events being delivered, time advancing past the
\* cooloff and the OS starting the command (within the bounds of the
\* specification).
C37_RestartHappens ==
    \A u \in 1..RestartMaxUuid :
        AwaitsRestart(1, u) ~> (RespawnedAfter(1, u) \/ RestartBlocked(1))

\* A tick has respawned the record, the death of its first incarnation
\* consumed: it runs under a new incarnation, one restart counted.
C37_Witness ==
    /\ op.kind = "tick"
    /\ processes[1].restarts = 1
    /\ processes[1].uuid > 1
    /\ children[processes[1].uuid].os = "running"
    /\ DeathConsumed(1)

(* ------------------------- ui::state::UiState focus ------------------------- *)
\* Bound of the focus specification: the process counts update_procs is given.
FocusMaxProcs == 2

\* ui::state::Focussable
FocusProcess(i) == [tag |-> "Process", idx |-> i]
FocusLogs == [tag |-> "Logs", idx |-> 0]
FocusDebug == [tag |-> "Debug", idx |-> 0]

\* ui::state::UiState::default(), the fields the focus functions use.
FocusDefault ==
    [tick |-> 0, procs |-> 0, focus |-> None, mode |-> "Dashboard", debug |-> FALSE]

\* Mutant of toggle_debug: hiding the panel leaves the focus where it is.
ToggleDebug_KeepsFocus(ui) == [ui EXCEPT !.debug = ~ui.debug]

\* UiState::toggle_debug
ToggleDebug(ui) ==
    LET d == ~ui.debug
    IN  IF ~d /\ ui.focus = Some(FocusDebug)
        THEN [ui EXCEPT !.debug = d, !.focus = Some(FocusProcess(0))]
        ELSE [ui EXCEPT !.debug = d]

\* UiState::focus_next
FocusNext(ui) ==
    [ui EXCEPT !.focus =
        IF ui.focus = None THEN Some(FocusProcess(0))
        ELSE LET f == Unwrap(ui.focus)
             IN  CASE f.tag = "Process" ->
                        IF f.idx + 1 < ui.procs
                        THEN Some(FocusProcess(f.idx + 1))
                        ELSE Some(FocusLogs)
                   [] f.tag = "Logs" ->
                        IF ui.debug THEN Some(FocusDebug) ELSE Some(FocusProcess(0))
                   [] OTHER -> Some(FocusProcess(0))]

\* UiState::focus_prev
FocusPrev(ui) ==
    [ui EXCEPT !.focus =
        IF ui.focus = None THEN Some(FocusProcess(0))
        ELSE LET f == Unwrap(ui.focus)
             IN  CASE f.tag = "Process" ->
                        IF f.idx > 0 THEN Some(FocusProcess(f.idx - 1))
                        ELSE IF ui.debug THEN Some(FocusDebug)
                        ELSE Some(FocusLogs)
                   [] f.tag = "Logs" ->
                        IF ui.procs > 0 THEN Some(FocusProcess(ui.procs - 1))
                        ELSE IF ui.debug THEN Some(FocusDebug)
                        ELSE Some(FocusLogs)
                   [] OTHER -> Some(FocusLogs)]

\* UiState::update_procs
UpdateProcs(ui, count) ==
    IF /\ ui.focus # None
       /\ Unwrap(ui.focus).tag = "Process"
       /\ Unwrap(ui.focus).idx >= count
    THEN [ui EXCEPT !.procs = count,
                    !.focus = Some(IF count = 0 THEN FocusLogs ELSE FocusProcess(count - 1))]
    ELSE [ui EXCEPT !.procs = count]

\* UiState::toggle_spotlight
ToggleSpotlight(ui) ==
    [ui EXCEPT !.mode = IF ui.mode = "Spotlight" THEN "Dashboard" ELSE "Spotlight"]

\* In the focus specification app.ui holds a ui::state::UiState.
FocusInit ==
    /\ processes = <<>>
    /\ children = <<>>
    /\ queue = <<>>
    /\ now = 0
    /\ app = [NewApp(<<>>) EXCEPT !.started = TRUE, !.ui = FocusDefault]
    /\ op = [kind |-> "init"]

\* One call of a function of the UiState: f is the state it gives.
FocusCall(kind, f) ==
    /\ app' = [app EXCEPT !.ui = f]
    /\ op' = [kind |-> kind]
    /\ UNCHANGED <<processes, children, queue, now>>

ToggleDebugCall == FocusCall("toggle_debug", ToggleDebug(app.ui))
FocusNextCall == FocusCall("focus_next", FocusNext(app.ui))
FocusPrevCall == FocusCall("focus_prev", FocusPrev(app.ui))
UpdateProcsCall(count) == FocusCall("update_procs", UpdateProcs(app.ui, count))
ToggleSpotlightCall == FocusCall("toggle_spotlight", ToggleSpotlight(app.ui))

FocusStep ==
    \/ ToggleDebugCall
    \/ FocusNextCall
    \/ FocusPrevCall
    \/ \E count \in 0..FocusMaxProcs : UpdateProcsCall(count)
    \/ ToggleSpotlightCall

FocusSpec == FocusInit /\ [][FocusStep]_vars

\* The focus is on Process(i).
OnProcess(ui) == ui.focus # None /\ Unwrap(ui.focus).tag = "Process"

\* C38: a focus of Process(i) refers to an existing process: i < procs.
C38_FocusOnExistingProcess ==
    OnProcess(app.ui) => Unwrap(app.ui.focus).idx < app.ui.procs

\* C39: the focus is on Debug only while debug is enabled.
C39_DebugFocusNeedsDebug ==
    app.ui.focus = Some(FocusDebug) => app.ui.debug

\* The debug panel is focussed, reached by focus_prev.
C39_Witness ==
    /\ op.kind = "focus_prev"
    /\ app.ui.focus = Some(FocusDebug)
    /\ app.ui.debug

\* C40: when the focus is not None, focus_next followed by focus_prev, and
\* focus_prev followed by focus_next, restore the focus.
C40_PrevInvertsNext ==
    app.ui.focus # None =>
        /\ FocusPrev(FocusNext(app.ui)).focus = app.ui.focus
        /\ FocusNext(FocusPrev(app.ui)).focus = app.ui.focus

====
